---- MODULE Spec2Model ----
(***************************************************************************)
(* The error-analysis and cross-validation pipeline of helper.py:          *)
(* error_cross_validate, top_n_errors, comps2sent, sent_type_errors and    *)
(* error_analysis.                                                         *)
(*                                                                         *)
(* Python values are represented as follows.  A list or array is a         *)
(* sequence; Python's zero-based index i is kept as the number i and       *)
(* selects element i+1 of the sequence.  A dict is the sequence of its     *)
(* items [k, v] in insertion order, with pairwise different keys.  A call  *)
(* that may raise yields a result [ok, val, exc].                          *)
(***************************************************************************)
EXTENDS Integers, Sequences, FiniteSets, TLC

(***************************************************************************)
(* Bounds of the model.                                                    *)
(***************************************************************************)
MaxM == 3
MaxEA == 2
MaxRes == 3
MaxGroup == 3
MaxErrs == 2

Texts == {"a", "b"}
GroupTexts == {"a", "b", "c"}
Comps == {"x", "y"}
Labels == {0, 1}
Preds == {0, 1}
Scores == {0, 1}

SeqsUpTo(S, n) == UNION {[1..m -> S] : m \in 0..n}
SeqsOfLen(S, n) == [1..n -> S]
Min(a, b) == IF a < b THEN a ELSE b
Max(a, b) == IF a > b THEN a ELSE b
Abs(a) == IF a < 0 THEN -a ELSE a
Range(s) == {s[j] : j \in 1..Len(s)}

(***************************************************************************)
(* Python list indexing, slicing and dict operations used by the code.     *)
(***************************************************************************)
Ok(v) == [ok |-> TRUE, val |-> v, exc |-> "none"]
Raise(e) == [ok |-> FALSE, val |-> <<>>, exc |-> e]

PyIndexOK(s, i) == i \in (0 - Len(s))..(Len(s) - 1)
PyAt(s, i) == IF i >= 0 THEN s[i + 1] ELSE s[Len(s) + i + 1]
PySliceTo(s, n) ==
    IF n >= 0 THEN SubSeq(s, 1, Min(n, Len(s)))
    ELSE SubSeq(s, 1, Max(0, Len(s) + n))

DictHas(d, key) == \E j \in 1..Len(d) : d[j].k = key
DictGet(d, key, default) ==
    IF DictHas(d, key)
    THEN d[CHOOSE j \in 1..Len(d) : d[j].k = key].v
    ELSE default
DictSet(d, key, value) ==
    IF DictHas(d, key)
    THEN [j \in 1..Len(d) |->
            IF d[j].k = key THEN [k |-> key, v |-> value] ELSE d[j]]
    ELSE Append(d, [k |-> key, v |-> value])
DictKeys(d) == {d[j].k : j \in 1..Len(d)}

RECURSIVE Concat(_)
Concat(ss) == IF ss = <<>> THEN <<>> ELSE Head(ss) \o Concat(Tail(ss))

(***************************************************************************)
(* sklearn.metrics.mean_absolute_error, the default score_function.        *)
(***************************************************************************)
RECURSIVE SumAbsDiff(_, _)
SumAbsDiff(p, r) ==
    IF p = <<>> THEN 0
    ELSE Abs(Head(p) - Head(r)) + SumAbsDiff(Tail(p), Tail(r))
mean_absolute_error(pred_value, real_value) ==
    SumAbsDiff(pred_value, real_value) \div Len(pred_value)

(***************************************************************************)
(* comps2sent                                                              *)
(***************************************************************************)
RECURSIVE SentenceCompid(_, _, _, _)
SentenceCompid(text_data, companies, i, acc) ==
    IF i >= Len(text_data) THEN Ok(acc)
    ELSE IF ~PyIndexOK(companies, i) THEN Raise("IndexError")
    ELSE LET text == PyAt(text_data, i)
             comp == PyAt(companies, i)
             comps_indexs == Append(DictGet(acc, text, <<>>), <<comp, i>>)
         IN  SentenceCompid(text_data, companies, i + 1,
                            DictSet(acc, text, comps_indexs))

GroupIds(compsid) == [m \in 1..Len(compsid) |-> compsid[m][2]]

RECURSIVE CompscountIdsOverwrite(_, _, _)
CompscountIdsOverwrite(sentence_compid, j, acc) ==
    IF j > Len(sentence_compid) THEN acc
    ELSE LET compsid == sentence_compid[j].v
         IN  CompscountIdsOverwrite(sentence_compid, j + 1,
                 DictSet(acc, Len(compsid), <<GroupIds(compsid)>>))

RECURSIVE CompscountIds(_, _, _)
CompscountIds(sentence_compid, j, acc) ==
    IF j > Len(sentence_compid) THEN acc
    ELSE LET compsid == sentence_compid[j].v
             ids == Append(DictGet(acc, Len(compsid), <<>>), GroupIds(compsid))
         IN  CompscountIds(sentence_compid, j + 1,
                           DictSet(acc, Len(compsid), ids))

comps2sent(text_data, companies) ==
    LET sentence_compid == SentenceCompid(text_data, companies, 0, <<>>)
    IN  IF sentence_compid.ok
        THEN Ok(CompscountIds(sentence_compid.val, 1, <<>>))
        ELSE sentence_compid

(***************************************************************************)
(* top_n_errors                                                            *)
(***************************************************************************)
CountAtLeast(s, score) == Cardinality({j \in 1..Len(s) : s[j][3] >= score})
CountAbove(s, score) == Cardinality({j \in 1..Len(s) : s[j][3] > score})

InsertBeforeTies(s, x) ==
    LET c == CountAbove(s, x[3])
    IN  SubSeq(s, 1, c) \o <<x>> \o SubSeq(s, c + 1, Len(s))

InsertAfterTies(s, x) ==
    LET c == CountAtLeast(s, x[3])
    IN  SubSeq(s, 1, c) \o <<x>> \o SubSeq(s, c + 1, Len(s))

RECURSIVE SortedByScoreReverse(_)
SortedByScoreReverse(error_res) ==
    IF error_res = <<>> THEN <<>>
    ELSE InsertAfterTies(
             SortedByScoreReverse(SubSeq(error_res, 1, Len(error_res) - 1)),
             error_res[Len(error_res)])

ErrorRecord(train_data, train_values, companies, index, pred_value) ==
    [Sentence |-> PyAt(train_data, index), Company |-> PyAt(companies, index),
     TrueValue |-> PyAt(train_values, index), PredValue |-> pred_value,
     index |-> index]

top_n_errors(error_res, train_data, train_values, companies, n) ==
    LET sorted == SortedByScoreReverse(error_res)
        top == PySliceTo(sorted, n)
    IN  IF \E j \in 1..Len(top) :
              \/ ~PyIndexOK(train_data, top[j][1])
              \/ ~PyIndexOK(companies, top[j][1])
              \/ ~PyIndexOK(train_values, top[j][1])
        THEN Raise("IndexError")
        ELSE Ok([j \in 1..Len(top) |->
                   ErrorRecord(train_data, train_values, companies,
                               top[j][1], top[j][2])])

(***************************************************************************)
(* sent_type_errors                                                        *)
(***************************************************************************)
IdPairs(compscount_ids) ==
    Concat([j \in 1..Len(compscount_ids) |->
        Concat([l \in 1..Len(compscount_ids[j].v) |->
            [m \in 1..Len(compscount_ids[j].v[l]) |->
                <<compscount_ids[j].v[l][m], compscount_ids[j].k>>]])])

RECURSIVE SetAll(_, _)
SetAll(pairs, acc) ==
    IF pairs = <<>> THEN acc
    ELSE SetAll(Tail(pairs), DictSet(acc, Head(pairs)[1], Head(pairs)[2]))

IdsCompscount(compscount_ids) == SetAll(IdPairs(compscount_ids), <<>>)

RECURSIVE CompsErrorsSkipMissing(_, _, _, _)
CompsErrorsSkipMissing(top_errors, ids_compscount, j, acc) ==
    IF j > Len(top_errors) THEN Ok(acc)
    ELSE LET error == top_errors[j]
             sent_id == error.index
         IN  IF ~DictHas(ids_compscount, sent_id)
             THEN CompsErrorsSkipMissing(top_errors, ids_compscount, j + 1, acc)
             ELSE LET comp_count == DictGet(ids_compscount, sent_id, 0)
                      errors == Append(DictGet(acc, comp_count, <<>>), error)
                  IN  CompsErrorsSkipMissing(top_errors, ids_compscount, j + 1,
                                             DictSet(acc, comp_count, errors))

RECURSIVE CompsErrors(_, _, _, _)
CompsErrors(top_errors, ids_compscount, j, acc) ==
    IF j > Len(top_errors) THEN Ok(acc)
    ELSE LET error == top_errors[j]
             sent_id == error.index
         IN  IF ~DictHas(ids_compscount, sent_id) THEN Raise("KeyError")
             ELSE LET comp_count == DictGet(ids_compscount, sent_id, 0)
                      errors == Append(DictGet(acc, comp_count, <<>>), error)
                  IN  CompsErrors(top_errors, ids_compscount, j + 1,
                                  DictSet(acc, comp_count, errors))

sent_type_errors(top_errors, compscount_ids) ==
    CompsErrors(top_errors, IdsCompscount(compscount_ids), 1, <<>>)

ErrorDistribution(error_details) ==
    [j \in 1..Len(error_details) |->
        [k |-> error_details[j].k, v |-> Len(error_details[j].v)]]

(***************************************************************************)
(* sklearn.model_selection.KFold as error_cross_validate uses it: the      *)
(* constructor rejects n_splits <= 1, split rejects arrays of different    *)
(* lengths and n_splits > n_samples, the first n_samples % n_splits folds  *)
(* hold one index more than the others, the folds are consecutive slices   *)
(* of the (shuffled) index range, and each fold is yielded as the          *)
(* ascending arrays of its train and test indices.                         *)
(***************************************************************************)
RECURSIVE SortedSeq(_)
SortedSeq(S) ==
    IF S = {} THEN <<>>
    ELSE LET m == CHOOSE x \in S : \A y \in S : x <= y
         IN  <<m>> \o SortedSeq(S \ {m})

KFoldInitUnchecked(n_splits) == TRUE
KFoldInitOK(n_splits) == n_splits > 1

KFoldSplitOK(n_splits, n_data, n_values) ==
    n_data = n_values /\ n_splits <= n_data

Permutations0(n) ==
    {p \in [1..n -> 0..(n - 1)] : \A i, j \in 1..n : p[i] = p[j] => i = j}
Arange(n) == [j \in 1..n |-> j - 1]

FoldSize(n_samples, n_splits, f) ==
    (n_samples \div n_splits) + (IF f <= n_samples % n_splits THEN 1 ELSE 0)
RECURSIVE FoldStart(_, _, _)
FoldStart(n_samples, n_splits, f) ==
    IF f = 1 THEN 0
    ELSE FoldStart(n_samples, n_splits, f - 1)
         + FoldSize(n_samples, n_splits, f - 1)

TestIndices(indices, n_splits, f) ==
    LET n == Len(indices)
        start == FoldStart(n, n_splits, f)
    IN  SortedSeq({indices[j] :
                     j \in (start + 1)..(start + FoldSize(n, n_splits, f))})

KFoldSplit(indices, n_splits) ==
    [f \in 1..n_splits |-> TestIndices(indices, n_splits, f)]

TrainIndicesAll(n_samples, test) == SortedSeq(0..(n_samples - 1))
TrainIndices(n_samples, test) == SortedSeq((0..(n_samples - 1)) \ Range(test))

(***************************************************************************)
(* State.  entry is the function the caller invoked, pc the position in    *)
(* it.  calls is the sequence of calls made on the model and on the score  *)
(* function: a fit on the train indices, a predict on the test indices     *)
(* with the values it returned, a score of [predicted] against [real].     *)
(***************************************************************************)
VARIABLES entry, pc, raised, returned, ret,
          train_data, train_values, train_comps, train_text, text_supplied,
          num_errors, n_folds, shuffle,
          folds, fold, predicted_values, results, calls,
          compcount_id, error_results, top_errors, error_details

inputs == <<entry, train_data, train_values, train_comps, train_text,
            text_supplied, num_errors, n_folds, shuffle>>
cvstate == <<folds, fold, predicted_values, results, calls>>
outputs == <<compcount_id, error_results, top_errors, error_details, ret>>
vars == <<pc, raised, returned, inputs, cvstate, outputs>>

Call(op, idx, ok, a, b) == [op |-> op, idx |-> idx, ok |-> ok, a |-> a, b |-> b]

Idle ==
    /\ raised = "none" /\ returned = FALSE /\ ret = <<>>
    /\ folds = <<>> /\ fold = 0 /\ predicted_values = <<>>
    /\ results = <<>> /\ calls = <<>>

Throw(e) == /\ raised' = e /\ pc' = "raised"

\* lines 299 and 301 stand in no try block: what the model raises leaves
\* error_cross_validate (and error_analysis, line 394) at once
ModelFailureReturnsPartial == pc' = "cv_return" /\ raised' = raised
ModelFailure == Throw("ModelFailure")

(***************************************************************************)
(* error_cross_validate, lines 280-309                                     *)
(***************************************************************************)
InitCV ==
    /\ entry = "error_cross_validate" /\ pc = "cv_kfold"
    /\ \E M \in 0..MaxM :
          /\ train_data \in SeqsOfLen({"a"}, M)
          /\ train_values \in SeqsOfLen(Labels, M)
    /\ n_folds \in 0..(MaxM + 1)
    /\ shuffle \in BOOLEAN
    /\ train_comps = <<>> /\ train_text = <<>> /\ text_supplied = FALSE
    /\ num_errors = 0
    /\ compcount_id = <<>> /\ error_results = <<>> /\ top_errors = <<>>
    /\ error_details = <<>>
    /\ Idle

\* lines 292-297
CVKFold ==
    /\ pc = "cv_kfold"
    /\ results' = <<>>
    /\ IF KFoldInitOK(n_folds)
       THEN pc' = "cv_split" /\ UNCHANGED raised
       ELSE Throw("ValueError")
    /\ UNCHANGED <<returned, inputs, folds, fold, predicted_values, calls, outputs>>

\* line 298, the first iteration of kfold.split
CVSplit ==
    /\ pc = "cv_split"
    /\ IF KFoldSplitOK(n_folds, Len(train_data), Len(train_values))
       THEN /\ \E indices \in (IF shuffle THEN Permutations0(Len(train_data))
                                ELSE {Arange(Len(train_data))}) :
                 folds' = KFoldSplit(indices, n_folds)
            /\ fold' = 1
            /\ pc' = "cv_fit"
            /\ UNCHANGED raised
       ELSE /\ Throw("ValueError")
            /\ UNCHANGED <<folds, fold>>
    /\ UNCHANGED <<returned, inputs, predicted_values, results, calls, outputs>>

\* line 299
CVFit ==
    /\ pc = "cv_fit"
    /\ LET train == TrainIndices(Len(train_data), folds[fold])
       IN  \/ /\ calls' = Append(calls, Call("fit", train, TRUE, <<>>, <<>>))
              /\ pc' = "cv_predict"
              /\ UNCHANGED raised
           \/ /\ calls' = Append(calls, Call("fit", train, FALSE, <<>>, <<>>))
              /\ ModelFailure
    /\ UNCHANGED <<returned, inputs, folds, fold, predicted_values, results, outputs>>

\* line 301
CVPredict ==
    /\ pc = "cv_predict"
    /\ LET test == folds[fold]
       IN  \/ \E L \in {Len(test) - 1, Len(test), Len(test) + 1} \cap Nat :
               \E out \in SeqsOfLen(Preds, L) :
                 /\ predicted_values' = out
                 /\ calls' = Append(calls, Call("predict", test, TRUE, out, <<>>))
                 /\ pc' = "cv_score"
                 /\ UNCHANGED raised
           \/ /\ calls' = Append(calls, Call("predict", test, FALSE, <<>>, <<>>))
              /\ ModelFailure
              /\ UNCHANGED predicted_values
    /\ UNCHANGED <<returned, inputs, folds, fold, results, outputs>>

ScoredPredictionByPosition(test, pred, real, i) ==
    <<i, PyAt(pred, i),
      mean_absolute_error(<<PyAt(pred, i)>>, <<PyAt(real, i)>>)>>

\* lines 305-308
ScoredPrediction(test, pred, real, i) ==
    <<PyAt(test, i), PyAt(pred, i),
      mean_absolute_error(<<PyAt(pred, i)>>, <<PyAt(real, i)>>)>>

\* lines 302-308, the whole loop over one fold's predictions
CVScore ==
    /\ pc = "cv_score"
    /\ LET test == folds[fold]
           real_values == [j \in 1..Len(test) |-> PyAt(train_values, test[j])]
           done == Min(Len(predicted_values), Len(test))
           scored == [j \in 1..done |->
                        ScoredPrediction(test, predicted_values, real_values, j - 1)]
       IN  /\ calls' = calls \o
                 [j \in 1..done |->
                    Call("score", <<>>, TRUE, <<predicted_values[j]>>,
                         <<real_values[j]>>)]
           /\ results' = results \o scored
           /\ IF Len(predicted_values) > Len(test)
              THEN Throw("IndexError") /\ UNCHANGED fold
              ELSE /\ UNCHANGED raised
                   /\ IF fold < Len(folds)
                      THEN fold' = fold + 1 /\ pc' = "cv_fit"
                      ELSE UNCHANGED fold /\ pc' = "cv_return"
    /\ UNCHANGED <<returned, inputs, folds, predicted_values, outputs>>

\* line 309
CVReturn ==
    /\ pc = "cv_return"
    /\ error_results' = results
    /\ IF entry = "error_cross_validate"
       THEN returned' = TRUE /\ pc' = "done"
       ELSE UNCHANGED returned /\ pc' = "ea_rank"
    /\ UNCHANGED <<raised, inputs, cvstate, compcount_id, top_errors,
                   error_details, ret>>

(***************************************************************************)
(* error_analysis, lines 377-400                                           *)
(***************************************************************************)
InitEA ==
    /\ entry = "error_analysis" /\ pc = "ea_group"
    /\ train_data \in SeqsUpTo(Texts, MaxEA)
    /\ train_values \in SeqsUpTo({0}, MaxEA)
    /\ train_comps \in
          {c \in SeqsUpTo({"x"}, MaxEA + 1) : Len(c) >= Len(train_data) - 1}
    /\ \/ text_supplied = FALSE /\ train_text = <<>>
       \/ /\ text_supplied = TRUE
          /\ train_text \in {<<>>} \cup SeqsOfLen(Texts, Len(train_data))
    /\ num_errors \in {1, MaxEA}
    /\ n_folds \in 1..(MaxEA + 1)
    /\ shuffle \in BOOLEAN
    /\ compcount_id = <<>> /\ error_results = <<>> /\ top_errors = <<>>
    /\ error_details = <<>>
    /\ Idle

\* line 390: "if train_text:" with the default train_text=False
TrainTextTruthy(supplied, text) == supplied /\ Len(text) > 0

\* lines 389-393
EAGroup ==
    /\ pc = "ea_group"
    /\ LET r == IF TrainTextTruthy(text_supplied, train_text)
                THEN comps2sent(train_text, train_comps)
                ELSE comps2sent(train_data, train_comps)
       IN  IF r.ok
           THEN compcount_id' = r.val /\ pc' = "cv_kfold" /\ UNCHANGED raised
           ELSE Throw(r.exc) /\ UNCHANGED compcount_id
    /\ UNCHANGED <<returned, inputs, cvstate, error_results, top_errors,
                   error_details, ret>>

\* lines 396-397
EARank ==
    /\ pc = "ea_rank"
    /\ LET r == top_n_errors(error_results, train_data, train_values,
                             train_comps, num_errors)
       IN  IF r.ok
           THEN top_errors' = r.val /\ pc' = "ea_strat" /\ UNCHANGED raised
           ELSE Throw(r.exc) /\ UNCHANGED top_errors
    /\ UNCHANGED <<returned, inputs, cvstate, compcount_id, error_results,
                   error_details, ret>>

\* line 398
EAStratify ==
    /\ pc = "ea_strat"
    /\ LET r == sent_type_errors(top_errors, compcount_id)
       IN  IF r.ok
           THEN error_details' = r.val /\ pc' = "ea_return" /\ UNCHANGED raised
           ELSE Throw(r.exc) /\ UNCHANGED error_details
    /\ UNCHANGED <<returned, inputs, cvstate, compcount_id, error_results,
                   top_errors, ret>>

\* lines 399-400
EAReturn ==
    /\ pc = "ea_return"
    /\ ret' = <<error_details, ErrorDistribution(error_details)>>
    /\ returned' = TRUE
    /\ pc' = "done"
    /\ UNCHANGED <<raised, inputs, cvstate, compcount_id, error_results,
                   top_errors, error_details>>

Init == InitCV \/ InitEA

Next ==
    \/ CVKFold \/ CVSplit \/ CVFit \/ CVPredict \/ CVScore \/ CVReturn
    \/ EAGroup \/ EARank \/ EAStratify \/ EAReturn

Spec == Init /\ [][Next]_vars

(***************************************************************************)
(* A direct call of top_n_errors on any list of scored predictions.        *)
(***************************************************************************)
RankIdx == 0..2
SampleSentences == <<"s0", "s1", "s2">>
SampleCompanies == <<"x", "y", "x">>
SampleValues == <<0, 1, 1>>

InitRank ==
    /\ entry = "top_n_errors" /\ pc = "rank_call"
    /\ error_results \in SeqsUpTo(RankIdx \X Preds \X Scores, MaxRes)
    /\ num_errors \in 0..(MaxRes + 1)
    /\ \E L \in {2, 3} :
          /\ train_data = SubSeq(SampleSentences, 1, L)
          /\ train_comps = SubSeq(SampleCompanies, 1, L)
          /\ train_values = SubSeq(SampleValues, 1, L)
    /\ train_text = <<>> /\ text_supplied = FALSE
    /\ n_folds = 0 /\ shuffle = FALSE
    /\ compcount_id = <<>> /\ top_errors = <<>> /\ error_details = <<>>
    /\ Idle

RankCall ==
    /\ pc = "rank_call"
    /\ LET r == top_n_errors(error_results, train_data, train_values,
                             train_comps, num_errors)
       IN  IF r.ok
           THEN top_errors' = r.val /\ returned' = TRUE /\ pc' = "done"
                /\ UNCHANGED raised
           ELSE Throw(r.exc) /\ UNCHANGED <<top_errors, returned>>
    /\ UNCHANGED <<inputs, cvstate, compcount_id, error_results,
                   error_details, ret>>

SpecRank == InitRank /\ [][RankCall]_vars

(***************************************************************************)
(* A direct call of comps2sent on any texts and entities.                  *)
(***************************************************************************)
InitGroup ==
    /\ entry = "comps2sent" /\ pc = "group_call"
    /\ train_data \in SeqsUpTo(GroupTexts, MaxGroup)
    /\ train_comps \in SeqsUpTo(Comps, MaxGroup)
    /\ train_values = <<>> /\ train_text = <<>> /\ text_supplied = FALSE
    /\ num_errors = 0 /\ n_folds = 0 /\ shuffle = FALSE
    /\ compcount_id = <<>> /\ error_results = <<>> /\ top_errors = <<>>
    /\ error_details = <<>>
    /\ Idle

GroupCall ==
    /\ pc = "group_call"
    /\ LET r == comps2sent(train_data, train_comps)
       IN  IF r.ok
           THEN compcount_id' = r.val /\ returned' = TRUE /\ pc' = "done"
                /\ UNCHANGED raised
           ELSE Throw(r.exc) /\ UNCHANGED <<compcount_id, returned>>
    /\ UNCHANGED <<inputs, cvstate, error_results, top_errors,
                   error_details, ret>>

SpecGroup == InitGroup /\ [][GroupCall]_vars

(***************************************************************************)
(* A direct call of sent_type_errors on any error records and any          *)
(* count-to-index-lists dict.                                              *)
(***************************************************************************)
StratIds == 0..2
StratCounts == {1, 2}
StratRecords ==
    [Sentence : {"s"}, Company : {"x"}, TrueValue : {0}, PredValue : Preds,
     index : StratIds]
StratIdLists == {SortedSeq(S) : S \in (SUBSET StratIds) \ {{}}}
StratDicts ==
    {<<>>}
    \cup {<<[k |-> c, v |-> l]>> :
            c \in StratCounts, l \in SeqsUpTo(StratIdLists, 2) \ {<<>>}}
    \cup {<<[k |-> c[1], v |-> <<l[1]>>], [k |-> c[2], v |-> <<l[2]>>]>> :
            c \in {x \in StratCounts \X StratCounts : x[1] # x[2]},
            l \in StratIdLists \X StratIdLists}

InitStrat ==
    /\ entry = "sent_type_errors" /\ pc = "strat_call"
    /\ top_errors \in SeqsUpTo(StratRecords, MaxErrs)
    /\ compcount_id \in StratDicts
    /\ train_data = <<>> /\ train_comps = <<>> /\ train_values = <<>>
    /\ train_text = <<>> /\ text_supplied = FALSE
    /\ num_errors = 0 /\ n_folds = 0 /\ shuffle = FALSE
    /\ error_results = <<>> /\ error_details = <<>>
    /\ Idle

StratCall ==
    /\ pc = "strat_call"
    /\ LET r == sent_type_errors(top_errors, compcount_id)
       IN  IF r.ok
           THEN error_details' = r.val /\ returned' = TRUE /\ pc' = "done"
                /\ UNCHANGED raised
           ELSE Throw(r.exc) /\ UNCHANGED <<error_details, returned>>
    /\ UNCHANGED <<inputs, cvstate, compcount_id, error_results,
                   top_errors, ret>>

SpecStrat == InitStrat /\ [][StratCall]_vars

(***************************************************************************)
(* Properties of error_cross_validate and error_analysis (Spec).           *)
(***************************************************************************)
M == Len(train_data)
IndexRange == 0..(M - 1)

CVHasReturned ==
    \/ entry = "error_cross_validate" /\ returned
    \/ entry = "error_analysis" /\ pc \in {"ea_rank", "ea_strat", "ea_return", "done"}

IsModelCall(c) == c.op \in {"fit", "predict"}
IsScoreCall(c) == c.op = "score"
ModelCalls == SelectSeq(calls, IsModelCall)
ScoreCalls == SelectSeq(calls, IsScoreCall)

PredictContract ==
    \A p \in 1..Len(calls) :
        (calls[p].op = "predict" /\ calls[p].ok) => Len(calls[p].a) = Len(calls[p].idx)

\* C1: when error_cross_validate has returned and every predict returned one
\* value per held-out example, the result holds exactly M records, every index
\* in 0..M-1 is the index of exactly one record, and the k test-index sets are
\* pairwise disjoint with the full index range as their union.
C1_ResultsPartitionIndexRange ==
    (CVHasReturned /\ PredictContract) =>
        /\ n_folds >= 2 /\ n_folds <= M
        /\ Len(folds) = n_folds
        /\ \A f, g \in 1..Len(folds) :
              f # g => Range(folds[f]) \cap Range(folds[g]) = {}
        /\ UNION {Range(folds[f]) : f \in 1..Len(folds)} = IndexRange
        /\ Len(error_results) = M
        /\ \A i \in IndexRange :
              Cardinality({j \in 1..Len(error_results) : error_results[j][1] = i}) = 1

C1_Witness ==
    /\ entry = "error_cross_validate" /\ returned /\ PredictContract
    /\ M >= 3 /\ n_folds = 2 /\ shuffle
    /\ folds[1] = <<0, 2>>

\* C6: a fit or predict that raises is the last call made on the model or the
\* score function, the exception is what the caller gets, and nothing is
\* returned: no list of results, and through error_analysis no top errors, no
\* strata and no distribution map.
C6_ModelFailurePropagates ==
    \A p \in 1..Len(calls) :
        ~calls[p].ok =>
            /\ p = Len(calls)
            /\ pc = "raised" /\ raised = "ModelFailure"
            /\ ~returned
            /\ error_results = <<>> /\ top_errors = <<>>
            /\ error_details = <<>> /\ ret = <<>>

C6_Witness ==
    /\ entry = "error_analysis" /\ raised = "ModelFailure"
    /\ fold = 2 /\ results # <<>>
    /\ calls[Len(calls)].op = "predict" /\ ~calls[Len(calls)].ok

\* C7: with n_folds < 2 or n_folds greater than the dataset size, no fold is
\* ever constructed, fit and predict are never called, nothing is returned, and
\* once past the KFold construction and the first step of split the call has
\* ended in an error (a ValueError when error_cross_validate is called
\* directly).
MalformedK == n_folds < 2 \/ n_folds > M

C7_MalformedKRejected ==
    MalformedK =>
        /\ calls = <<>> /\ folds = <<>>
        /\ error_results = <<>> /\ ~returned
        /\ pc \notin {"ea_group", "cv_kfold", "cv_split"} => pc = "raised"
        /\ (pc = "raised" /\ entry = "error_cross_validate") => raised = "ValueError"

C7_Witness ==
    /\ entry = "error_cross_validate"
    /\ n_folds >= 2 /\ n_folds > M /\ M >= 1
    /\ pc = "raised" /\ raised = "ValueError"

TrainTextGiven(supplied, text) == supplied

\* C9 (as claimed): error_analysis groups over the supplied group texts
\* whenever they are supplied, an empty sequence included, and over data only
\* when they are not supplied.
C9_GroupsOverSuppliedTexts ==
    LET texts == IF TrainTextGiven(text_supplied, train_text)
                 THEN train_text ELSE train_data
        r == comps2sent(texts, train_comps)
    IN  (entry = "error_analysis" /\ pc # "ea_group" /\ r.ok) =>
            compcount_id = r.val

\* C10: when error_cross_validate has returned, the calls on the model are
\* fit, predict, fit, predict, ... with exactly n_folds fits, each predict
\* directly after its fit, the f-th fit on exactly the complement of the f-th
\* fold's held-out indices; and the m-th returned record, for index i, carries
\* a value returned by a predict on a fold holding i whose fit did not train
\* on i, and its score from the m-th score call, made on [predicted] and
\* [true label of i].
C10_FitPredictAlternation ==
    CVHasReturned =>
        /\ Len(ModelCalls) = 2 * n_folds
        /\ \A f \in 1..n_folds :
              /\ ModelCalls[2 * f - 1].op = "fit"
              /\ ModelCalls[2 * f].op = "predict"
              /\ ModelCalls[2 * f].idx = folds[f]
              /\ Range(ModelCalls[2 * f - 1].idx) = IndexRange \ Range(folds[f])
        /\ \A p \in 1..Len(calls) :
              calls[p].op = "fit" => (p < Len(calls) /\ calls[p + 1].op = "predict")
        /\ Len(ScoreCalls) = Len(error_results)
        /\ \A m \in 1..Len(error_results) :
              LET i == error_results[m][1]
                  predicted == error_results[m][2]
              IN  /\ \E f \in 1..n_folds :
                        /\ i \notin Range(ModelCalls[2 * f - 1].idx)
                        /\ \E j \in 1..Len(folds[f]) :
                              /\ folds[f][j] = i
                              /\ j <= Len(ModelCalls[2 * f].a)
                              /\ ModelCalls[2 * f].a[j] = predicted
                  /\ ScoreCalls[m].a = <<predicted>>
                  /\ ScoreCalls[m].b = <<train_values[i + 1]>>
                  /\ error_results[m][3] = Abs(predicted - train_values[i + 1])

C10_Witness ==
    /\ entry = "error_cross_validate" /\ returned
    /\ M = 3 /\ n_folds = 3 /\ shuffle
    /\ folds = <<<<2>>, <<0>>, <<1>>>>
    /\ Len(error_results) = 3

(***************************************************************************)
(* Properties of top_n_errors (SpecRank).                                  *)
(***************************************************************************)
\* The place of input record q in the stable score-descending order: one more
\* than the number of records that go before it.
RankOf(s, q) ==
    1 + Cardinality({p \in 1..Len(s) :
                       s[p][3] > s[q][3] \/ (s[p][3] = s[q][3] /\ p < q)})
SourceOf(s, j) == CHOOSE q \in 1..Len(s) : RankOf(s, q) = j

\* C2: for n >= 0 a returned top_n_errors holds min(n, len(input)) records,
\* the j-th built from the input record at place j of the stable
\* score-descending order (higher score first, equal scores in input order),
\* with data[index], entities[index], labels[index], the predicted value and
\* the index; adjacent records have non-increasing scores.
C2_TopNStableDescending ==
    (entry = "top_n_errors" /\ returned /\ num_errors >= 0) =>
        LET m == Min(num_errors, Len(error_results))
        IN  /\ Len(top_errors) = m
            /\ \A q \in 1..Len(error_results) :
                  LET j == RankOf(error_results, q)
                      index == error_results[q][1]
                  IN  j <= m =>
                        top_errors[j] =
                            [Sentence |-> train_data[index + 1],
                             Company |-> train_comps[index + 1],
                             TrueValue |-> train_values[index + 1],
                             PredValue |-> error_results[q][2],
                             index |-> index]
            /\ \A j \in 1..(m - 1) :
                  error_results[SourceOf(error_results, j)][3]
                      >= error_results[SourceOf(error_results, j + 1)][3]

C2_Witness ==
    /\ entry = "top_n_errors" /\ returned
    /\ Len(error_results) = 3 /\ num_errors = 2
    /\ error_results[1][3] = 1 /\ error_results[2][3] = 0
    /\ error_results[3][3] = 1
    /\ error_results[1][1] = 2 /\ error_results[3][1] = 1
    /\ top_errors[1].index = 2 /\ top_errors[2].index = 1

(***************************************************************************)
(* Properties of comps2sent (SpecGroup).                                   *)
(***************************************************************************)
InnerLists == Concat([j \in 1..Len(compcount_id) |-> compcount_id[j].v])
FlatIds == Concat(InnerLists)

\* C3: for texts and entities of equal length M, comps2sent returns, the inner
\* lists taken together hold every index in 0..M-1 exactly once, and two
\* indices are in one inner list exactly when their texts are equal.
C3_InnerListsPartitionByText ==
    (entry = "comps2sent" /\ pc # "group_call" /\ Len(train_comps) = M) =>
        /\ returned
        /\ Len(FlatIds) = M
        /\ \A i \in IndexRange :
              Cardinality({p \in 1..Len(FlatIds) : FlatIds[p] = i}) = 1
        /\ \A i, j \in IndexRange :
              (\E l \in 1..Len(InnerLists) :
                    i \in Range(InnerLists[l]) /\ j \in Range(InnerLists[l]))
                <=> train_data[i + 1] = train_data[j + 1]

C3_Witness ==
    /\ entry = "comps2sent" /\ returned
    /\ train_data = <<"a", "b", "a">> /\ Len(train_comps) = 3
    /\ Len(InnerLists) = 2

\* C4 (as claimed): the key of every bucket equals the number of distinct
\* entity labels among the records of each index-list in the bucket.
C4_KeyIsDistinctEntityCount ==
    (entry = "comps2sent" /\ returned) =>
        \A j \in 1..Len(compcount_id) :
            \A l \in 1..Len(compcount_id[j].v) :
                compcount_id[j].k =
                    Cardinality({train_comps[i + 1] :
                                   i \in Range(compcount_id[j].v[l])})

\* C8 (as claimed): a call with parallel sequences of different lengths
\* signals an error instead of returning a result.
C8_MismatchedLengthsFail ==
    /\ (entry = "comps2sent" /\ Len(train_comps) # M) => ~returned
    /\ (entry = "top_n_errors"
          /\ (Len(train_comps) # M \/ Len(train_values) # M)) => ~returned
    /\ (entry = "error_analysis"
          /\ (\/ Len(train_comps) # M
              \/ Len(train_values) # M
              \/ (text_supplied /\ Len(train_text) # M))) => ~returned

(***************************************************************************)
(* Properties of sent_type_errors (SpecStrat).                             *)
(***************************************************************************)
ListedUnder(d, c) ==
    UNION {UNION {Range(d[j].v[l]) : l \in 1..Len(d[j].v)} :
             j \in {x \in 1..Len(d) : d[x].k = c}}
ListedIds(d) == UNION {ListedUnder(d, c) : c \in DictKeys(d)}
Occurrences(s, r) == Cardinality({p \in 1..Len(s) : s[p] = r})

\* C5: sent_type_errors ends in an error exactly when some record's index is
\* in no index-list of count_groups; otherwise it returns, every input record
\* is in exactly one stratum, as often as in the input, the key of that
\* stratum is a count under which the record's index is listed, and the
\* strata together hold as many records as were passed in.
C5_NoRecordDropped ==
    (entry = "sent_type_errors" /\ pc # "strat_call") =>
        LET missing == \E p \in 1..Len(top_errors) :
                           top_errors[p].index \notin ListedIds(compcount_id)
            all == Concat([j \in 1..Len(error_details) |-> error_details[j].v])
        IN  /\ missing <=> (pc = "raised" /\ raised = "KeyError")
            /\ ~missing <=> returned
            /\ returned =>
                  /\ Len(all) = Len(top_errors)
                  /\ \A r \in Range(top_errors) :
                        /\ Cardinality({j \in 1..Len(error_details) :
                                          r \in Range(error_details[j].v)}) = 1
                        /\ \A j \in 1..Len(error_details) :
                              r \in Range(error_details[j].v) =>
                                /\ Occurrences(error_details[j].v, r)
                                      = Occurrences(top_errors, r)
                                /\ r.index \in
                                      ListedUnder(compcount_id, error_details[j].k)

C5_Witness ==
    /\ entry = "sent_type_errors" /\ returned
    /\ Len(top_errors) = 2 /\ Len(error_details) = 2
    /\ Len(compcount_id) = 2

====
